---- MODULE Spec2Model ----
(***************************************************************************)
(* Model of m4a_to_mp4_converter.py: the command-line entry point main,    *)
(* the availability check check_ffmpeg, the duration probe                 *)
(* get_audio_duration, the conversion pipeline convert_m4a_to_mp4 and the  *)
(* batch orchestrator batch_convert.                                       *)
(*                                                                         *)
(* The program is sequential; pc is its position.  Every external process  *)
(* (ffmpeg -version, ffprobe, ffmpeg) is a blocking subprocess.run call    *)
(* whose outcome is chosen by the environment.                             *)
(*                                                                         *)
(* Values.  A path is a non-empty sequence of names, a name is the pair    *)
(* <<stem, suffix>>.  None is the empty sequence, and an optional value is *)
(* a sequence of length at most one.  Text that is parsed or formatted is  *)
(* a sequence of one-character strings.                                    *)
(***************************************************************************)
EXTENDS Naturals, Sequences, FiniteSets

VARIABLES
    args,         \* the parsed command line (argparse namespace)
    listing,      \* the entries of the music directory, in scandir order
    pc,           \* position of the program
    checkResult,  \* optional outcome of the call of check_ffmpeg
    attempts,     \* the calls of convert_m4a_to_mp4, in order: the requests
    probeCalls,   \* the ffprobe invocations, each with what the probe returned
    encodeCalls,  \* the ffmpeg encode invocations, each with how it ended
    results,      \* the values returned by convert_m4a_to_mp4, in order
    stdout,       \* what the program printed
    exitCode,     \* optional process exit status
    request,      \* the arguments of the running convert_m4a_to_mp4 call
    output_file,  \* convert_m4a_to_mp4's local output_file
    duration,     \* convert_m4a_to_mp4's local duration
    caller,       \* who called convert_m4a_to_mp4: "main" or "batch_convert"
    m4a_files,    \* batch_convert's local list of matched files
    idx,          \* position of batch_convert's for loop in m4a_files
    successful,   \* batch_convert's counter
    failed,       \* batch_convert's counter
    made_dirs,    \* the directories os.makedirs was asked to create
    uncaught      \* optional exception that left main uncaught

vars == <<args, listing, pc, checkResult, attempts, probeCalls, encodeCalls,
          results, stdout, exitCode, request, output_file, duration, caller,
          m4a_files, idx, successful, failed, made_dirs, uncaught>>

None == <<>>

Some(v) == <<v>>

Range(s) == {s[i] : i \in DOMAIN s}

----------------------------------------------------------------------------
(* Bounds and the input sets.                                              *)

\* the largest number of entries of the directory that batch mode lists
MaxFiles == 3

\* entries that may be present in the directory
EntryA == <<"a", ".m4a">>

EntryB == <<"b", ".m4a">>

\* a symbolic link named c.m4a whose target is gone
EntryC == <<"c", ".m4a">>

EntryN == <<"notes", ".txt">>

Universe == {EntryA, EntryB, EntryC, EntryN}

Dangling == {EntryC}

MusicDir == <<"music", "">>

NoDir == <<"nodir", "">>

SongFile == <<"song", ".m4a">>

GoneFile == <<"gone", ".m4a">>

OutName == <<"out", ".mp4">>

Colors == {"black", "white"}

Resolutions == {"1920x1080", "1280x720"}

\* the duration strings an ffprobe JSON document may carry
DurationTexts ==
    { <<"3", ".", "5", "0", "0", "0", "0", "0">>,
      <<"0", ".", "1", "2", "5", "0", "0", "0">>,
      <<"1", "0">>,
      <<"N", "/", "A">> }

Stderrs == {"Invalid argument", "Conversion failed!"}

\* all sequences without repetition of at most n elements of S
RECURSIVE Listings(_, _)
Listings(S, n) ==
    IF n = 0 THEN {<<>>}
    ELSE LET shorter == Listings(S, n - 1)
             longest == {l \in shorter : Len(l) = n - 1}
         IN  shorter \cup
             UNION {{Append(l, e) : e \in S \ Range(l)} : l \in longest}

ArgsSet ==
    [list_colors : BOOLEAN,
     directory   : {None, <<MusicDir>>, <<NoDir>>},
     input       : {None, <<SongFile>>, <<GoneFile>>},
     output      : {None, <<OutName>>},
     color       : Colors,
     resolution  : Resolutions]

----------------------------------------------------------------------------
(* The file system.                                                        *)

\* os.path.exists: true for a path that resolves to a file or a directory
Exists(path) ==
    \/ path = <<MusicDir>>
    \/ path = <<SongFile>>
    \/ /\ Len(path) = 2
       /\ path[1] = MusicDir
       /\ path[2] \in Range(listing)
       /\ path[2] \notin Dangling

\* Path.with_suffix('.mp4')
with_suffix(path, suffix) ==
    [path EXCEPT ![Len(path)] = <<path[Len(path)][1], suffix>>]

\* Path(directory) / f"{m4a_file.stem}.mp4"
OutputIn(directory, m4a_file) ==
    Append(directory, <<m4a_file[Len(m4a_file)][1], ".mp4">>)

\* the match of the pattern *.m4a against one name
MatchesM4a(name) == name[2] = ".m4a"

\* a glob that yields the matching entries last to first
RECURSIVE GlobReversed(_, _)
GlobReversed(directory, entries) ==
    IF entries = <<>> THEN <<>>
    ELSE LET rest == GlobReversed(directory, Tail(entries))
         IN  IF Head(entries)[2] = ".m4a"
             THEN Append(rest, Append(directory, Head(entries)))
             ELSE rest

\* list(Path(input_directory).glob('*.m4a')): the matching entries of the
\* directory, in the order the directory listing yields them
RECURSIVE Glob(_, _)
Glob(directory, entries) ==
    IF entries = <<>> THEN <<>>
    ELSE LET rest == Glob(directory, Tail(entries))
         IN  IF MatchesM4a(Head(entries))
             THEN <<Append(directory, Head(entries))>> \o rest
             ELSE rest

----------------------------------------------------------------------------
(* Text and numbers.                                                       *)

Digits == <<"0", "1", "2", "3", "4", "5", "6", "7", "8", "9">>

IsDigit(c) == \E i \in DOMAIN Digits : Digits[i] = c

DigitVal(c) == (CHOOSE i \in DOMAIN Digits : Digits[i] = c) - 1

RECURSIVE DigitsToNat(_)
DigitsToNat(ds) ==
    IF ds = <<>> THEN 0
    ELSE 10 * DigitsToNat(SubSeq(ds, 1, Len(ds) - 1)) + DigitVal(ds[Len(ds)])

RECURSIVE NatToDigits(_)
NatToDigits(n) ==
    IF n < 10 THEN <<Digits[n + 1]>>
    ELSE Append(NatToDigits(n \div 10), Digits[(n % 10) + 1])

RECURSIVE StripTrailingZeros(_)
StripTrailingZeros(ds) ==
    IF ds # <<>> /\ ds[Len(ds)] = "0"
    THEN StripTrailingZeros(SubSeq(ds, 1, Len(ds) - 1))
    ELSE ds

\* float(text) for a plain decimal literal (digits with at most one point):
\* the number it denotes, as integer part and significant fraction digits;
\* None stands for ValueError
ParseFloat(text) ==
    LET dots == {i \in DOMAIN text : text[i] = "."}
        ok   == /\ \A i \in DOMAIN text : IsDigit(text[i]) \/ text[i] = "."
                /\ Cardinality(dots) <= 1
                /\ \E i \in DOMAIN text : IsDigit(text[i])
        p    == IF dots = {} THEN Len(text) + 1 ELSE CHOOSE i \in dots : TRUE
    IN  IF ~ok THEN None
        ELSE Some([ip |-> DigitsToNat(SubSeq(text, 1, p - 1)),
                   fd |-> StripTrailingZeros(SubSeq(text, p + 1, Len(text)))])

\* str(x) of a float x (the shortest literal that reads back as x; for the
\* magnitudes of a media duration it is never in exponent form)
FloatRepr(x) ==
    NatToDigits(x.ip) \o <<".">> \o (IF x.fd = <<>> THEN <<"0">> ELSE x.fd)

----------------------------------------------------------------------------
(* The external processes: how a subprocess.run(..., check=True) may end.  *)

\* exit status 0; a non-zero exit status; no such executable; any other
\* failure to start the process (PermissionError and the other OSErrors)
RunKinds == {"exit0", "CalledProcessError", "FileNotFoundError", "OSError"}

\* what ffprobe wrote to its standard output: text that is not JSON, a JSON
\* object without "format", one whose "format" has no "duration", or one
\* with a duration string
NotJson == [json |-> FALSE, format |-> FALSE, has_duration |-> FALSE, duration |-> <<>>]

NoFormat == [json |-> TRUE, format |-> FALSE, has_duration |-> FALSE, duration |-> <<>>]

NoDuration == [json |-> TRUE, format |-> TRUE, has_duration |-> FALSE, duration |-> <<>>]

WithDuration(text) ==
    [json |-> TRUE, format |-> TRUE, has_duration |-> TRUE, duration |-> text]

ProbeOutcomes ==
    {[kind |-> k, stdout |-> NotJson] : k \in RunKinds \ {"exit0"}}
    \cup {[kind |-> "exit0", stdout |-> d] :
              d \in {NotJson, NoFormat, NoDuration}
                    \cup {WithDuration(t) : t \in DurationTexts}}

EncodeOutcomes ==
    {[kind |-> "exit0", stderr |-> ""]}
    \cup {[kind |-> "CalledProcessError", stderr |-> e] : e \in Stderrs}
    \cup {[kind |-> k, stderr |-> ""] : k \in {"FileNotFoundError", "OSError"}}

----------------------------------------------------------------------------
(* The functions of the program.                                           *)

Line(msg, text, n) == [msg |-> msg, text |-> text, n |-> n]

Last(s) == s[Len(s)]

\* check_ffmpeg: the value returned, or the exception that leaves it
check_ffmpeg(kind) ==
    IF kind = "exit0" THEN [raised |-> FALSE, value |-> TRUE, exception |-> ""]
    ELSE IF kind \in {"CalledProcessError", "FileNotFoundError"}
    THEN [raised |-> FALSE, value |-> FALSE, exception |-> ""]
    ELSE [raised |-> TRUE, value |-> FALSE, exception |-> kind]

\* get_audio_duration: Some(duration) or None
get_audio_duration(outcome) ==
    IF outcome.kind # "exit0" THEN None
    ELSE IF ~outcome.stdout.json THEN None
    ELSE IF ~outcome.stdout.format THEN None
    ELSE IF ~outcome.stdout.has_duration THEN None
    ELSE ParseFloat(outcome.stdout.duration)

\* a command that formats the duration as the progress line does, f"{duration:.2f}"
\* (two fraction digits; the durations of the model need no rounding carry)
FormatDurationTwoDecimals(d) ==
    IF d = None THEN <<"N", "o", "n", "e">>
    ELSE NatToDigits(d[1].ip) \o <<".">> \o
         SubSeq(d[1].fd \o <<"0", "0">>, 1, 2)

\* f"{duration}" in the command of the encode
FormatDuration(d) ==
    IF d = None THEN <<"N", "o", "n", "e">> ELSE FloatRepr(d[1])

\* the ffmpeg command line of convert_m4a_to_mp4
EncodeCommand(input_file, out, background_color, resolution, d) ==
    [format    |-> "lavfi",
     color     |-> background_color,
     size      |-> resolution,
     duration  |-> FormatDuration(d),
     audio     |-> input_file,
     vcodec    |-> "libx264",
     acodec    |-> "aac",
     shortest  |-> TRUE,
     overwrite |-> TRUE,
     output    |-> out]

\* a pipeline without the existence check
InputMissingNever(input_file) == FALSE

\* "if not os.path.exists(input_file)" in convert_m4a_to_mp4
InputMissing(input_file) == ~Exists(input_file)

\* a pipeline without the check of the probe's result
DurationUnknownNever(d) == FALSE

\* "if duration is None" in convert_m4a_to_mp4
DurationUnknown(d) == d = None

\* an encode run without check=True: a non-zero exit passes for success
EncodeResultIgnoringExit(outcome) ==
    IF outcome.kind \in {"exit0", "CalledProcessError"}
    THEN [raised |-> FALSE, value |-> TRUE, exception |-> "",
          lines |-> <<Line("Successfully converted", "", 0)>>]
    ELSE [raised |-> TRUE, value |-> FALSE, exception |-> outcome.kind,
          lines |-> <<>>]

\* the try/except around the encode: the value convert_m4a_to_mp4 returns
\* and what it prints, or the exception that leaves it
EncodeResult(outcome) ==
    IF outcome.kind = "exit0"
    THEN [raised |-> FALSE, value |-> TRUE, exception |-> "",
          lines |-> <<Line("Successfully converted", "", 0)>>]
    ELSE IF outcome.kind = "CalledProcessError"
    THEN [raised |-> FALSE, value |-> FALSE, exception |-> "",
          lines |-> <<Line("Error during conversion", "", 0),
                      Line("FFmpeg stderr", outcome.stderr, 0)>>]
    ELSE [raised |-> TRUE, value |-> FALSE, exception |-> outcome.kind,
          lines |-> <<>>]

\* a main that tests --list-colors only after the availability check
ListColorsIgnored(a) == FALSE

\* "if args.list_colors" in main
ListColorsRequested(a) == a.list_colors

\* a main that prints nothing and goes on when the check fails
ToolchainGateOpen(available) == "continue"

\* "if not check_ffmpeg(): ... sys.exit(1)" in main
ToolchainGate(available) == IF ~available THEN "exit" ELSE "continue"

ColorNames ==
    <<"black", "white", "red", "green", "blue", "yellow", "cyan", "magenta",
      "gray", "grey">>

InstallGuidance ==
    <<Line("Error: FFmpeg is not installed or not available in PATH.", "", 0),
      Line("Please install FFmpeg", "", 0),
      Line("On macOS", "", 0),
      Line("On Ubuntu/Debian", "", 0),
      Line("On Windows", "", 0)>>

----------------------------------------------------------------------------
(* The state after argument parsing, before the first statement of main.   *)

Init ==
    /\ args \in ArgsSet
    /\ listing \in Listings(Universe, MaxFiles)
    /\ pc = "main"
    /\ checkResult = None
    /\ attempts = <<>>
    /\ probeCalls = <<>>
    /\ encodeCalls = <<>>
    /\ results = <<>>
    /\ stdout = <<>>
    /\ exitCode = None
    /\ request = None
    /\ output_file = None
    /\ duration = None
    /\ caller = ""
    /\ m4a_files = <<>>
    /\ idx = 0
    /\ successful = 0
    /\ failed = 0
    /\ made_dirs = {}
    /\ uncaught = None

convertVars == <<attempts, probeCalls, encodeCalls, results, request,
                 output_file, duration, caller>>

batchVars == <<m4a_files, idx, successful, failed, made_dirs>>

\* the process ends: main returned (status 0) or sys.exit(status)
Exit(status) ==
    /\ pc' = "done"
    /\ exitCode' = Some(status)
    /\ uncaught' = uncaught

\* an exception propagates out of main: traceback, status 1
Raise(exception) ==
    /\ pc' = "done"
    /\ exitCode' = Some(1)
    /\ uncaught' = Some(exception)

----------------------------------------------------------------------------
(* main                                                                    *)

\* --list-colors: print the names and return
MainListColors ==
    /\ pc = "main"
    /\ ListColorsRequested(args)
    /\ stdout' = stdout \o <<Line("Available color names:", "", 0)>>
                       \o [i \in DOMAIN ColorNames |-> Line("  - ", ColorNames[i], 0)]
    /\ Exit(0)
    /\ UNCHANGED <<args, listing, checkResult, convertVars, batchVars>>

\* the availability check and the exit it guards
MainCheckFfmpeg ==
    /\ pc = "main"
    /\ ~ListColorsRequested(args)
    /\ \E kind \in RunKinds :
          LET r == check_ffmpeg(kind)
          IN  /\ checkResult' = Some([outcome |-> kind, raised |-> r.raised,
                                      value |-> r.value])
              /\ IF r.raised
                 THEN /\ Raise(r.exception)
                      /\ stdout' = stdout
                 ELSE IF ToolchainGate(r.value) = "exit"
                 THEN /\ stdout' = stdout \o InstallGuidance
                      /\ Exit(1)
                 ELSE /\ pc' = "dispatch"
                      /\ UNCHANGED <<stdout, exitCode, uncaught>>
    /\ UNCHANGED <<args, listing, convertVars, batchVars>>

\* "if args.directory: batch_convert(...)"
MainBatch ==
    /\ pc = "dispatch"
    /\ args.directory # None
    /\ pc' = "batch_convert"
    /\ UNCHANGED <<args, listing, checkResult, stdout, exitCode, uncaught,
                   convertVars, batchVars>>

\* "if not args.input: parser.print_help()"
MainHelp ==
    /\ pc = "dispatch"
    /\ args.directory = None
    /\ args.input = None
    /\ stdout' = Append(stdout, Line("usage", "", 0))
    /\ Exit(0)
    /\ UNCHANGED <<args, listing, checkResult, convertVars, batchVars>>

\* "if not os.path.exists(args.input): ... sys.exit(1)"
MainInputMissing ==
    /\ pc = "dispatch"
    /\ args.directory = None
    /\ args.input # None
    /\ ~Exists(args.input)
    /\ stdout' = Append(stdout, Line("Error: Input file does not exist.", "", 0))
    /\ Exit(1)
    /\ UNCHANGED <<args, listing, checkResult, convertVars, batchVars>>

\* the call convert_m4a_to_mp4(args.input, args.output, args.color, args.resolution)
MainSingle ==
    /\ pc = "dispatch"
    /\ args.directory = None
    /\ args.input # None
    /\ Exists(args.input)
    /\ request' = [input_file       |-> args.input,
                   output_file      |-> args.output,
                   background_color |-> args.color,
                   resolution       |-> args.resolution]
    /\ caller' = "main"
    /\ pc' = "convert"
    /\ UNCHANGED <<args, listing, checkResult, stdout, exitCode, uncaught,
                   attempts, probeCalls, encodeCalls, results, output_file,
                   duration, batchVars>>

\* "if not success: sys.exit(1)", else main returns
MainAfterConvert ==
    /\ pc = "returned"
    /\ caller = "main"
    /\ IF ~Last(results) THEN Exit(1) ELSE Exit(0)
    /\ UNCHANGED <<args, listing, checkResult, stdout, convertVars, batchVars>>

----------------------------------------------------------------------------
(* convert_m4a_to_mp4                                                      *)

\* entry: the existence check and the derivation of the output path
ConvertEnter ==
    /\ pc = "convert"
    /\ attempts' = Append(attempts, request)
    /\ IF InputMissing(request.input_file)
       THEN /\ stdout' = Append(stdout, Line("Error: Input file does not exist.", "", 0))
            /\ results' = Append(results, FALSE)
            /\ pc' = "returned"
            /\ output_file' = output_file
       ELSE /\ output_file' = IF request.output_file = None
                               THEN with_suffix(request.input_file, ".mp4")
                               ELSE request.output_file
            /\ pc' = "probe"
            /\ UNCHANGED <<stdout, results>>
    /\ UNCHANGED <<args, listing, checkResult, exitCode, uncaught, probeCalls,
                   encodeCalls, request, duration, caller, batchVars>>

\* the duration probe and the check of what it returned
ConvertProbe ==
    /\ pc = "probe"
    /\ \E outcome \in ProbeOutcomes :
          LET d == get_audio_duration(outcome)
              printed == IF d = None
                         THEN <<Line("Error getting audio duration", "", 0)>>
                         ELSE <<>>
          IN  /\ probeCalls' = Append(probeCalls,
                                      [audio_file |-> request.input_file,
                                       returned   |-> d])
              /\ duration' = d
              /\ IF DurationUnknown(d)
                 THEN /\ stdout' = stdout \o printed \o
                           <<Line("Error: Could not determine audio duration.", "", 0)>>
                      /\ results' = Append(results, FALSE)
                      /\ pc' = "returned"
                 ELSE /\ stdout' = stdout \o printed \o
                           <<Line("Converting", "", 0),
                             Line("Audio duration", "", 0),
                             Line("Video resolution", request.resolution, 0),
                             Line("Background color", request.background_color, 0)>>
                      /\ results' = results
                      /\ pc' = "encode"
    /\ UNCHANGED <<args, listing, checkResult, exitCode, uncaught, attempts,
                   encodeCalls, request, output_file, caller, batchVars>>

\* the encode and the handling of how it ended
ConvertEncode ==
    /\ pc = "encode"
    /\ \E outcome \in EncodeOutcomes :
          LET r == EncodeResult(outcome)
          IN  /\ encodeCalls' = Append(encodeCalls,
                    [cmd |-> EncodeCommand(request.input_file, output_file,
                                           request.background_color,
                                           request.resolution, duration),
                     outcome |-> outcome])
              /\ stdout' = stdout \o r.lines
              /\ IF r.raised
                 THEN /\ Raise(r.exception)
                      /\ results' = results
                 ELSE /\ results' = Append(results, r.value)
                      /\ pc' = "returned"
                      /\ UNCHANGED <<exitCode, uncaught>>
    /\ UNCHANGED <<args, listing, checkResult, attempts, probeCalls, request,
                   output_file, duration, caller, batchVars>>

----------------------------------------------------------------------------
(* batch_convert                                                           *)

\* the output directory of batch_convert
OutputDirectory == IF args.output = None THEN args.directory ELSE args.output

\* entry: the directory check, os.makedirs, the glob and the empty check
BatchEnter ==
    /\ pc = "batch_convert"
    /\ IF ~Exists(args.directory)
       THEN /\ stdout' = Append(stdout, Line("Error: Input directory does not exist.", "", 0))
            /\ Exit(0)
            /\ UNCHANGED batchVars
       ELSE \E mk \in (IF args.output = None THEN {"ok"} ELSE {"ok", "OSError"}) :
              IF mk # "ok"
              THEN /\ Raise(mk)
                   /\ UNCHANGED <<stdout, batchVars>>
              ELSE LET files == Glob(args.directory, listing)
                   IN  /\ made_dirs' = IF args.output = None THEN made_dirs
                                       ELSE made_dirs \cup {args.output}
                       /\ IF files = <<>>
                          THEN /\ stdout' = Append(stdout, Line("No M4A files found", "", 0))
                               /\ Exit(0)
                               /\ UNCHANGED <<m4a_files, idx, successful, failed>>
                          ELSE /\ stdout' = Append(stdout, Line("Found M4A files to convert", "", Len(files)))
                               /\ m4a_files' = files
                               /\ idx' = 1
                               /\ successful' = 0
                               /\ failed' = 0
                               /\ pc' = "batch_loop"
                               /\ UNCHANGED <<exitCode, uncaught>>
    /\ UNCHANGED <<args, listing, checkResult, convertVars>>

\* one iteration of the for loop: the call of convert_m4a_to_mp4
BatchNextFile ==
    /\ pc = "batch_loop"
    /\ idx <= Len(m4a_files)
    /\ stdout' = Append(stdout, Line("--- Converting ---", "", 0))
    /\ request' = [input_file       |-> m4a_files[idx],
                   output_file      |-> OutputIn(OutputDirectory, m4a_files[idx]),
                   background_color |-> args.color,
                   resolution       |-> args.resolution]
    /\ caller' = "batch_convert"
    /\ pc' = "convert"
    /\ UNCHANGED <<args, listing, checkResult, exitCode, uncaught, attempts,
                   probeCalls, encodeCalls, results, output_file, duration,
                   batchVars>>

\* the counting of the value convert_m4a_to_mp4 returned
BatchAfterConvert ==
    /\ pc = "returned"
    /\ caller = "batch_convert"
    /\ IF Last(results)
       THEN successful' = successful + 1 /\ failed' = failed
       ELSE failed' = failed + 1 /\ successful' = successful
    /\ idx' = idx + 1
    /\ pc' = "batch_loop"
    /\ UNCHANGED <<args, listing, checkResult, stdout, exitCode, uncaught,
                   convertVars, m4a_files, made_dirs>>

\* the loop is over: the summary, and batch_convert and main return
BatchSummary ==
    /\ pc = "batch_loop"
    /\ idx > Len(m4a_files)
    /\ stdout' = stdout \o <<Line("Conversion Summary:", "", 0),
                               Line("Successful", "", successful),
                               Line("Failed", "", failed),
                               Line("Output directory", "", 0)>>
    /\ Exit(0)
    /\ UNCHANGED <<args, listing, checkResult, convertVars, batchVars>>

Next ==
    \/ MainListColors
    \/ MainCheckFfmpeg
    \/ MainBatch
    \/ MainHelp
    \/ MainInputMissing
    \/ MainSingle
    \/ MainAfterConvert
    \/ ConvertEnter
    \/ ConvertProbe
    \/ ConvertEncode
    \/ BatchEnter
    \/ BatchNextFile
    \/ BatchAfterConvert
    \/ BatchSummary

Spec == Init /\ [][Next]_vars

----------------------------------------------------------------------------
(* Properties.                                                             *)

HasLine(msg) == \E i \in DOMAIN stdout : stdout[i].msg = msg

\* the conversions, probes and encodes of one input file
AttemptsOf(f) == {j \in DOMAIN attempts : attempts[j].input_file = f}

ProbesOf(f) == {i \in DOMAIN probeCalls : probeCalls[i].audio_file = f}

EncodesOf(f) == {k \in DOMAIN encodeCalls : encodeCalls[k].cmd.audio = f}

\* the availability check returned this value to main
CheckReturned(b) ==
    /\ checkResult # None
    /\ ~checkResult[1].raised
    /\ checkResult[1].value = b

\* batch_convert got as far as its for loop
InBatchLoop == caller = "batch_convert" \/ pc = "batch_loop" \/ m4a_files # <<>>

MatchingEntries == {i \in DOMAIN listing : MatchesM4a(listing[i])}

\* C1: in batch mode over an existing directory with N matching entries,
\* exactly N conversions are attempted, one per matching entry and none for
\* the others, whatever the failures, and at the end successful + failed = N.
C1_BatchAttemptsEveryMatch ==
    (pc = "done" /\ InBatchLoop) =>
        /\ Len(attempts) = Cardinality(MatchingEntries)
        /\ \A i \in MatchingEntries :
              \E j \in DOMAIN attempts :
                  attempts[j].input_file = <<MusicDir, listing[i]>>
        /\ successful + failed = Cardinality(MatchingEntries)

\* C2: the availability check runs before any conversion, and when it
\* returns false no probe and no encode is ever invoked, the installation
\* guidance is printed and the process ends with a non-zero status.
C2_CheckGatesConversion ==
    /\ (~args.list_colors /\ pc # "main") => checkResult # None
    /\ (attempts # <<>> \/ probeCalls # <<>> \/ encodeCalls # <<>> \/ pc = "convert")
           => CheckReturned(TRUE)
    /\ CheckReturned(FALSE) =>
           /\ attempts = <<>> /\ probeCalls = <<>> /\ encodeCalls = <<>>
           /\ pc = "done"
           /\ exitCode # None /\ exitCode[1] # 0
           /\ \A i \in DOMAIN InstallGuidance :
                 \E k \in DOMAIN stdout : stdout[k] = InstallGuidance[i]

C2_Witness ==
    /\ CheckReturned(FALSE)
    /\ pc = "done"
    /\ args.directory # None
    /\ args.input # None

\* C3: when the duration probe reports unknown for an existing input, the
\* conversion of that file returns failure with the duration error printed,
\* the encode is never invoked for it, and no encode ever runs with a
\* duration that is not the one a probe returned.
C3_UnknownDurationIsFatal ==
    /\ \A i \in DOMAIN probeCalls :
          probeCalls[i].returned = None =>
              LET f == probeCalls[i].audio_file
              IN  /\ Exists(f)
                  /\ EncodesOf(f) = {}
                  /\ \A j \in AttemptsOf(f) :
                        j <= Len(results) /\ results[j] = FALSE
                  /\ HasLine("Error: Could not determine audio duration.")
    /\ \A k \in DOMAIN encodeCalls :
          \E i \in ProbesOf(encodeCalls[k].cmd.audio) :
              /\ probeCalls[i].returned # None
              /\ encodeCalls[k].cmd.duration = FloatRepr(probeCalls[i].returned[1])

C3_Witness ==
    /\ pc = "done"
    /\ \E i \in DOMAIN probeCalls : probeCalls[i].returned = None
    /\ encodeCalls # <<>>

\* C4: when the input file does not exist, the conversion returns failure
\* with the input error printed and invokes neither the probe nor the encode.
C4_MissingInputFailsFast ==
    \A j \in DOMAIN attempts :
        ~Exists(attempts[j].input_file) =>
            /\ j <= Len(results) /\ results[j] = FALSE
            /\ ProbesOf(attempts[j].input_file) = {}
            /\ EncodesOf(attempts[j].input_file) = {}
            /\ HasLine("Error: Input file does not exist.")

C4_Witness ==
    /\ pc = "done"
    /\ \E j \in DOMAIN attempts : ~Exists(attempts[j].input_file)
    /\ probeCalls # <<>>

\* the diagnostic text a returned value carries: a bare boolean carries none
Diagnostic(r) == IF r \in BOOLEAN THEN None ELSE Some(r.diagnostic)

\* C5 as stated: when the encode exits non-zero the value returned to the
\* caller is a failure that carries the tool's stderr text, and when it
\* exits zero the value is success.
C5_ResultCarriesStderr ==
    \A k \in DOMAIN encodeCalls :
        \A j \in AttemptsOf(encodeCalls[k].cmd.audio) :
            /\ encodeCalls[k].outcome.kind = "CalledProcessError" =>
                  /\ j <= Len(results)
                  /\ results[j] # TRUE
                  /\ Diagnostic(results[j]) = Some(encodeCalls[k].outcome.stderr)
            /\ encodeCalls[k].outcome.kind = "exit0" =>
                  j <= Len(results) /\ results[j] = TRUE

\* C5 amended: when the encode exits non-zero the conversion prints the
\* tool's stderr text and returns the bare boolean False, which carries no
\* diagnostic; when it exits zero the conversion returns True.
C5_StderrPrintedAndFalseReturned ==
    \A k \in DOMAIN encodeCalls :
        \A j \in AttemptsOf(encodeCalls[k].cmd.audio) :
            /\ encodeCalls[k].outcome.kind = "CalledProcessError" =>
                  /\ j <= Len(results)
                  /\ results[j] = FALSE
                  /\ Diagnostic(results[j]) = None
                  /\ \E n \in DOMAIN stdout :
                        stdout[n] = Line("FFmpeg stderr", encodeCalls[k].outcome.stderr, 0)
            /\ encodeCalls[k].outcome.kind = "exit0" =>
                  /\ j <= Len(results)
                  /\ results[j] = TRUE
                  /\ HasLine("Successfully converted")

C5_Witness ==
    /\ pc = "done"
    /\ \E k \in DOMAIN encodeCalls : encodeCalls[k].outcome.kind = "CalledProcessError"
    /\ \E k \in DOMAIN encodeCalls : encodeCalls[k].outcome.kind = "exit0"

\* the input path given on the command line and used by the run is missing
SpecifiedPathMissing ==
    \/ args.directory # None /\ ~Exists(args.directory)
    \/ args.directory = None /\ args.input # None /\ ~Exists(args.input)

\* C6: the exit status is 0 after a successful conversion or the help text,
\* and 1 when the toolchain is unavailable, when the single-file conversion
\* fails, or when the specified input path does not exist.
C6_ExitStatus ==
    (pc = "done" /\ ~args.list_colors) =>
        /\ ~CheckReturned(TRUE) => exitCode = Some(1)
        /\ (caller = "main" /\ results # <<>> /\ ~Last(results)) => exitCode = Some(1)
        /\ (CheckReturned(TRUE) /\ SpecifiedPathMissing) => exitCode = Some(1)
        /\ (caller = "main" /\ results # <<>> /\ Last(results)) => exitCode = Some(0)
        /\ HasLine("usage") => exitCode = Some(0)

\* the order of file names: a.m4a < b.m4a < c.m4a < notes.txt
NameOrder == <<EntryA, EntryB, EntryC, EntryN>>

NameRank(name) == CHOOSE i \in DOMAIN NameOrder : NameOrder[i] = name

\* the place of a name in the directory listing
ListingPlace(name) == CHOOSE i \in DOMAIN listing : listing[i] = name

\* at most one conversion is running, and it is the last one called
OneAtATime == Len(results) \in {Len(attempts), Len(attempts) - 1}

\* C7 as stated: batch mode converts the matched files in the order of their
\* names, one finishing before the next starts.
C7_SortedByName ==
    InBatchLoop =>
        /\ OneAtATime
        /\ \A i, j \in DOMAIN attempts :
              i < j => NameRank(attempts[i].input_file[2])
                         < NameRank(attempts[j].input_file[2])

\* C7 amended: batch mode converts the matched files in the order in which
\* the directory listing yields them, which need not be the order of their
\* names, one finishing before the next starts.
C7_ListingOrder ==
    InBatchLoop =>
        /\ OneAtATime
        /\ \A i, j \in DOMAIN attempts :
              i < j => ListingPlace(attempts[i].input_file[2])
                         < ListingPlace(attempts[j].input_file[2])

C7_Witness ==
    /\ pc = "done"
    /\ Len(attempts) >= 2
    /\ Len(results) = Len(attempts)
    /\ NameRank(attempts[1].input_file[2]) > NameRank(attempts[2].input_file[2])

\* C8: for an existing input whose probe returned the duration D, the encode
\* is invoked exactly once for that file, with a generated video source
\* whose duration parameter reads back as D, with the requested color and
\* resolution unchanged, and with the overwrite flag.
C8_EncodeWithProbedDuration ==
    \A i \in DOMAIN probeCalls :
        probeCalls[i].returned # None =>
            LET f == probeCalls[i].audio_file
            IN  /\ Exists(f)
                /\ Cardinality(ProbesOf(f)) = 1
                /\ Cardinality(EncodesOf(f)) = IF pc = "encode" /\ i = Len(probeCalls)
                                                THEN 0 ELSE 1
                /\ \A k \in EncodesOf(f) :
                      /\ ParseFloat(encodeCalls[k].cmd.duration) = probeCalls[i].returned
                      /\ encodeCalls[k].cmd.format = "lavfi"
                      /\ encodeCalls[k].cmd.color = args.color
                      /\ encodeCalls[k].cmd.size = args.resolution
                      /\ encodeCalls[k].cmd.overwrite

C8_Witness ==
    /\ pc = "done"
    /\ \E k \in DOMAIN encodeCalls :
          /\ encodeCalls[k].cmd.duration = <<"0", ".", "1", "2", "5">>
          /\ encodeCalls[k].cmd.color = "white"
          /\ encodeCalls[k].cmd.size = "1280x720"
    /\ \E k \in DOMAIN encodeCalls :
          encodeCalls[k].cmd.duration = <<"1", "0", ".", "0">>

\* C9: check_ffmpeg always returns a boolean to its caller, true exactly when
\* the version query ran and exited with status 0, and false for every
\* other way the invocation can end; no exception leaves it.
C9_CheckAlwaysReturns ==
    checkResult # None =>
        /\ ~checkResult[1].raised
        /\ checkResult[1].value = (checkResult[1].outcome = "exit0")

\* C10: with --list-colors main prints the color names and ends with status
\* 0 without the availability check, a probe or a conversion, whatever the
\* other arguments are.
C10_ListColorsOnly ==
    args.list_colors =>
        /\ checkResult = None
        /\ attempts = <<>> /\ probeCalls = <<>> /\ encodeCalls = <<>>
        /\ pc \in {"main", "done"}
        /\ pc = "done" =>
              /\ exitCode = Some(0)
              /\ uncaught = None
              /\ \A c \in DOMAIN ColorNames :
                    \E n \in DOMAIN stdout : stdout[n] = Line("  - ", ColorNames[c], 0)

C10_Witness ==
    /\ args.list_colors
    /\ pc = "done"
    /\ args.directory # None
    /\ args.input # None
    /\ args.output # None

====
